---- MODULE Spec2Model ----
(***************************************************************************)
(* Task application: the Task store and the five views of                 *)
(* task_app/views.py, and the serverless adapter api/index.py.            *)
(*                                                                         *)
(* Text is a sequence of Unicode code points, a byte string a sequence of *)
(* numbers 0..255.  A title is a run of `lead` blanks followed by `core`  *)
(* letters 'a' (present = FALSE: the POST carries no title key).          *)
(***************************************************************************)
EXTENDS Integers, Sequences, FiniteSets, TLC

\* ------------------------------------------------------------------ bounds
MaxTasks == 2      \* rows ever inserted in one behaviour
MaxTime == 3       \* last instant the clock reaches
MaxPad == 1        \* blanks in front of a submitted title
MaxListed == 14    \* rows of the stores the pagination runs start from
MaxChunks == 2     \* chunks in a response body

\* ------------------------------------------------------- program constants
MaxTitleLength == 100
PageSize == 6

VARIABLES
  tasks,            \* the Task table: a set of rows
  nextId,           \* the table's AUTOINCREMENT sequence
  now,              \* last value timezone.now() returned
  resp,             \* what the last view call answered
  log,              \* per id: the last two writes to that row (history)
  django_loaded, django_error, django_traceback, application,
  hcall,            \* the last handler call: its request, and what the
                    \* application does when invoked (history)
  environ,          \* the environ the last call handed to the application
  raised,           \* the exception raised inside the last call (history)
  stderr,           \* what the last step (the load, a call) printed to sys.stderr
  hresp             \* what the last handler(request) call returned

storeVars == <<tasks, nextId, now, resp, log>>
adapterVars == <<django_loaded, django_error, django_traceback, application,
                 hcall, environ, raised, stderr, hresp>>
vars == <<tasks, nextId, now, resp, log,
          django_loaded, django_error, django_traceback, application,
          hcall, environ, raised, stderr, hresp>>

Min(a, b) == IF a <= b THEN a ELSE b
Max(a, b) == IF a >= b THEN a ELSE b

\* ------------------------------------------------------------------ Task
NoDescription == "<NULL>"

\* models.py: the five columns plus the implicit primary key.
Task(id, title, description, completed, created_at, updated_at) ==
  [id |-> id, title |-> title, description |-> description,
   completed |-> completed, created_at |-> created_at, updated_at |-> updated_at]

NoRow == Task(0, [present |-> FALSE, lead |-> 0, core |-> 0], NoDescription, FALSE, 0, 0)

Ids(rows) == {r.id : r \in rows}
RowsOf(rows, id) == {r \in rows : r.id = id}
Row(rows, id) == IF RowsOf(rows, id) = {} THEN NoRow ELSE CHOOSE r \in RowsOf(rows, id) : TRUE

\* ------------------------------------------------------------- TaskForm
TitleLen(t) == t.lead + t.core

\* forms.CharField.to_python: a missing value is '', other values are stripped.
CleanTitle(t) ==
  IF t.present THEN [present |-> TRUE, lead |-> 0, core |-> t.core]
  ELSE [present |-> TRUE, lead |-> 0, core |-> 0]

\* TextField(blank=True, null=True): an empty description is stored as NULL.
CleanDescription(d) == IF d = "" THEN NoDescription ELSE d

\* a title column without max_length
FormIsValidNoMax(post) == TitleLen(CleanTitle(post.title)) >= 1

\* TaskForm.is_valid: title required (forms.py __init__) and max_length=100
\* (models.py), both judged on the cleaned value; description and completed
\* are optional.
FormIsValid(post) ==
  /\ TitleLen(CleanTitle(post.title)) >= 1
  /\ TitleLen(CleanTitle(post.title)) <= MaxTitleLength

\* Model.save of a new instance: INSERT with the next key of the sequence;
\* auto_now_add and auto_now each read the clock (t1 then t2).
SaveNew(rows, id, post, t1, t2) ==
  rows \cup {Task(id, CleanTitle(post.title), CleanDescription(post.description),
                  post.completed, t1, t2)}

\* created_at declared auto_now: every save resets it
SaveFormAutoNow(rows, old, post, t) ==
  (rows \ RowsOf(rows, old.id)) \cup
    {Task(old.id, CleanTitle(post.title), CleanDescription(post.description),
          post.completed, t, t)}

\* Model.save of a loaded instance: UPDATE ... WHERE id = pk.  The form sets
\* the fields of Meta.fields only; auto_now refreshes updated_at.
SaveForm(rows, old, post, t) ==
  (rows \ RowsOf(rows, old.id)) \cup
    {Task(old.id, CleanTitle(post.title), CleanDescription(post.description),
          post.completed, old.created_at, t)}

\* a "mark as done" in place of the toggle
SaveToggleMarkDone(rows, old, t) ==
  (rows \ RowsOf(rows, old.id)) \cup
    {Task(old.id, old.title, old.description, TRUE, old.created_at, t)}

\* toggle_task: task.completed = not task.completed; task.save()
SaveToggle(rows, old, t) ==
  (rows \ RowsOf(rows, old.id)) \cup
    {Task(old.id, old.title, old.description, ~old.completed, old.created_at, t)}

\* a soft delete: the row stays in the table
DeleteRowSoft(rows, old) == rows

\* task.delete(): DELETE ... WHERE id = pk
DeleteRow(rows, old) == rows \ RowsOf(rows, old.id)

\* ------------------------------------------------------- Task.objects
\* ordering = ['created_at']: oldest first
RECURSIVE OrderByOldest(_, _)
OrderByOldest(rows, tie) ==
  IF rows = {} THEN <<>>
  ELSE LET oldest == {r \in rows : \A s \in rows : s.created_at >= r.created_at}
           r == CHOOSE x \in oldest :
                  \A y \in oldest : IF tie = "asc" THEN x.id <= y.id ELSE x.id >= y.id
       IN <<r>> \o OrderByOldest(rows \ {r}, tie)

\* Meta.ordering = ['-created_at'].  Rows with equal created_at come in an
\* order the database picks: `tie` is that pick (by key, up or down).
RECURSIVE OrderBy(_, _)
OrderBy(rows, tie) ==
  IF rows = {} THEN <<>>
  ELSE LET newest == {r \in rows : \A s \in rows : s.created_at <= r.created_at}
           r == CHOOSE x \in newest :
                  \A y \in newest : IF tie = "asc" THEN x.id <= y.id ELSE x.id >= y.id
       IN <<r>> \o OrderBy(rows \ {r}, tie)

\* title__icontains / description__icontains on the strings of this model:
\* a stored title is core letters 'a', a description is NULL or "milk".
Icontains(row, q) ==
  \/ q \in {"a", "A"} /\ row.title.core >= 1
  \/ q \in {"milk", "MILK"} /\ row.description = "milk"

SearchFilter(rows, q) == IF q = "" THEN rows ELSE {r \in rows : Icontains(r, q)}

StatusFilter(rows, f) ==
  IF f = "completed" THEN {r \in rows : r.completed}
  ELSE IF f = "pending" THEN {r \in rows : ~r.completed}
  ELSE rows

\* ------------------------------------------------------------ Paginator
\* Paginator(tasks, 6): orphans = 0, allow_empty_first_page = True.
NumPages(count) == (Max(1, count) + PageSize - 1) \div PageSize

\* Paginator.get_page: a page that is no integer gives page 1, a page out
\* of range (below 1 or above num_pages) gives the last page.
GetPageNumber(page, count) ==
  IF page.kind # "int" THEN 1
  ELSE IF page.n < 1 THEN NumPages(count)
  ELSE IF page.n > NumPages(count) THEN NumPages(count)
  ELSE page.n

\* pages counted from 0
PageSliceFromZero(seq, number) ==
  LET bottom == Min(number * PageSize, Len(seq))
      top == Min(bottom + PageSize, Len(seq))
  IN [i \in 1..Max(0, top - bottom) |-> seq[bottom + i]]

\* Paginator.page: object_list[bottom:top]
PageSlice(seq, number) ==
  LET bottom == (number - 1) * PageSize
      top == Min(bottom + PageSize, Len(seq))
  IN [i \in 1..Max(0, top - bottom) |-> seq[bottom + i]]

IdsOf(seq) == [i \in 1..Len(seq) |-> seq[i].id]

\* ---------------------------------------------------------------- views
Methods == {"GET", "POST", "HEAD"}
ReqIds == 1..MaxTasks
SearchQueries == {"", "A", "milk"}
StatusFilters == {"", "completed", "pending"}
\* ?page= absent, not a number, or a number up to one past the last page
PageParams(count) ==
  {[kind |-> "absent", n |-> 0], [kind |-> "text", n |-> 0]}
    \cup {[kind |-> "int", n |-> k] : k \in 0..(NumPages(count) + 1)}
\* the orders the database may return: they differ only when created_at ties
Ties(rows) ==
  IF \E r, s \in rows : r # s /\ r.created_at = s.created_at
  THEN {"asc", "desc"} ELSE {"asc"}
TitleInputs ==
  {[present |-> FALSE, lead |-> 0, core |-> 0]}
    \cup {[present |-> TRUE, lead |-> l, core |-> c] :
            l \in {0, MaxPad}, c \in {0, 1, MaxTitleLength, MaxTitleLength + 1}}
\* submitted forms: every title; the long titles come with a description
\* and the box ticked, the others with neither
PostData ==
  {[title |-> t,
    description |-> IF t.core >= MaxTitleLength THEN "milk" ELSE "",
    completed |-> t.core >= MaxTitleLength] : t \in TitleInputs}
NoPost == [title |-> [present |-> FALSE, lead |-> 0, core |-> 0],
           description |-> "", completed |-> FALSE]
\* request.POST is read for POST only
Posts(method) == IF method = "POST" THEN PostData ELSE {NoPost}

Response(view, method, id, status, template, message) ==
  [view |-> view, id |-> id, status |-> status,
   template |-> template, message |-> message,
   search_query |-> "", filter_status |-> "",
   items |-> <<>>, number |-> 0, num_pages |-> 0, found |-> 0]

\* Task.objects.get(id=id): DoesNotExist is uncaught, a server error
NotFoundUncaught(view, method, id) == Response(view, method, id, 500, "", "")

\* get_object_or_404(Task, id=id) on a missing id: Http404, answered as 404
NotFound(view, method, id) == Response(view, method, id, 404, "", "")

\* history: a write to a row, with the row before and after it
Write(op, before, after) == [op |-> op, before |-> before, after |-> after]
Logged(l, id, w) ==
  [l EXCEPT ![id] = IF Len(@) < 2 THEN Append(@, w) ELSE <<@[2], w>>]

\* timezone.now(): the wall clock; a read in a later request is later than
\* every earlier read.
ClockReads == (now + 1)..MaxTime
\* the second read of one save: the clock has ticked since the first, or not
SecondRead(t1) == {t1, Min(t1 + 1, MaxTime)}

task_list(search_query, filter_status, page, tie) ==
  LET matching == StatusFilter(SearchFilter(tasks, search_query), filter_status)
      ordered == OrderBy(matching, tie)
      number == GetPageNumber(page, Cardinality(matching))
  IN /\ resp' = [Response("task_list", "GET", 0, 200, "tasks/task_list.html",
                          IF search_query # "" THEN "found" ELSE "")
                   EXCEPT !.search_query = search_query,
                          !.filter_status = filter_status,
                          !.items = IdsOf(PageSlice(ordered, number)),
                          !.number = number,
                          !.num_pages = NumPages(Cardinality(matching)),
                          !.found = IF search_query # ""
                                    THEN Cardinality(SearchFilter(tasks, search_query))
                                    ELSE 0]
     /\ UNCHANGED <<tasks, nextId, now, log>>

add_task(method, post) ==
  IF method = "POST" /\ FormIsValid(post)
  THEN /\ nextId <= MaxTasks
       /\ \E t1 \in ClockReads : \E t2 \in SecondRead(t1) :
            /\ tasks' = SaveNew(tasks, nextId, post, t1, t2)
            /\ now' = t2
            /\ log' = Logged(log, nextId, Write("add", NoRow, Row(tasks', nextId)))
       /\ nextId' = nextId + 1
       /\ resp' = Response("add_task", method, nextId, 302, "", "added")
  ELSE /\ resp' = Response("add_task", method, 0, 200, "tasks/task_form.html",
                           IF method = "POST" THEN "errors" ELSE "")
       /\ UNCHANGED <<tasks, nextId, now, log>>

edit_task(method, id, post) ==
  IF RowsOf(tasks, id) = {}
  THEN /\ resp' = NotFound("edit_task", method, id)
       /\ UNCHANGED <<tasks, nextId, now, log>>
  ELSE IF method = "POST" /\ FormIsValid(post)
  THEN /\ \E t \in ClockReads :
            /\ tasks' = SaveForm(tasks, Row(tasks, id), post, t)
            /\ now' = t
       /\ log' = Logged(log, id, Write("edit", Row(tasks, id), Row(tasks', id)))
       /\ resp' = Response("edit_task", method, id, 302, "", "updated")
       /\ UNCHANGED nextId
  ELSE /\ resp' = Response("edit_task", method, id, 200, "tasks/task_form.html",
                           IF method = "POST" THEN "errors" ELSE "")
       /\ UNCHANGED <<tasks, nextId, now, log>>

delete_task(method, id) ==
  IF RowsOf(tasks, id) = {}
  THEN /\ resp' = NotFound("delete_task", method, id)
       /\ UNCHANGED <<tasks, nextId, now, log>>
  ELSE IF method = "POST"
  THEN /\ tasks' = DeleteRow(tasks, Row(tasks, id))
       /\ log' = Logged(log, id, Write("delete", Row(tasks, id), NoRow))
       /\ resp' = Response("delete_task", method, id, 302, "", "deleted")
       /\ UNCHANGED <<nextId, now>>
  ELSE /\ resp' = Response("delete_task", method, id, 200, "tasks/confirm_delete.html", "")
       /\ UNCHANGED <<tasks, nextId, now, log>>

toggle_task(method, id) ==
  IF RowsOf(tasks, id) = {}
  THEN /\ resp' = NotFound("toggle_task", method, id)
       /\ UNCHANGED <<tasks, nextId, now, log>>
  ELSE /\ \E t \in ClockReads :
            /\ tasks' = SaveToggle(tasks, Row(tasks, id), t)
            /\ now' = t
       /\ log' = Logged(log, id, Write("toggle", Row(tasks, id), Row(tasks', id)))
       /\ resp' = Response("toggle_task", method, id, 302, "",
                           IF Row(tasks', id).completed THEN "completed"
                           ELSE "marked as pending")
       /\ UNCHANGED nextId

\* urls.py: the five routes
TaskList == /\ \E q \in SearchQueries, f \in StatusFilters, tie \in Ties(tasks) :
                 \E p \in PageParams(Cardinality(tasks)) : task_list(q, f, p, tie)
            /\ UNCHANGED adapterVars
AddTask == /\ \E m \in Methods : \E post \in Posts(m) : add_task(m, post)
           /\ UNCHANGED adapterVars
EditTask == /\ \E m \in Methods, id \in ReqIds : \E post \in Posts(m) : edit_task(m, id, post)
            /\ UNCHANGED adapterVars
DeleteTask == /\ \E m \in Methods, id \in ReqIds : delete_task(m, id)
              /\ UNCHANGED adapterVars
ToggleTask == /\ \E m \in Methods, id \in ReqIds : toggle_task(m, id)
              /\ UNCHANGED adapterVars

NoResponse == Response("", "", 0, 0, "", "")


\* ================================================================ text
\* Text: a sequence of code points.  Bytes: a sequence of numbers 0..255.
\* The string literals of api/index.py, as code points.
S_GET == <<71, 69, 84>>    \* 'GET'
S_slash == <<47>>    \* '/'
S_localhost == <<108, 111, 99, 97, 108, 104, 111, 115, 116>>    \* 'localhost'
S_https == <<104, 116, 116, 112, 115>>    \* 'https'
S_http == <<104, 116, 116, 112>>    \* 'http'
S_443 == <<52, 52, 51>>    \* '443'
S_80 == <<56, 48>>    \* '80'
S_None == <<78, 111, 110, 101>>    \* 'None'
S_host == <<104, 111, 115, 116>>    \* 'host'
S_Host == <<72, 111, 115, 116>>    \* 'Host'
S_x_forwarded_proto == <<120, 45, 102, 111, 114, 119, 97, 114, 100, 101, 100, 45, 112, 114, 111, 116, 111>>    \* 'x-forwarded-proto'
S_X_Forwarded_Proto == <<88, 45, 70, 111, 114, 119, 97, 114, 100, 101, 100, 45, 80, 114, 111, 116, 111>>    \* 'X-Forwarded-Proto'
S_content_type == <<99, 111, 110, 116, 101, 110, 116, 45, 116, 121, 112, 101>>    \* 'content-type'
S_content_length == <<99, 111, 110, 116, 101, 110, 116, 45, 108, 101, 110, 103, 116, 104>>    \* 'content-length'
S_Content_Type == <<67, 111, 110, 116, 101, 110, 116, 45, 84, 121, 112, 101>>    \* 'Content-Type'
S_CONTENT_TYPE == <<67, 79, 78, 84, 69, 78, 84, 95, 84, 89, 80, 69>>    \* 'CONTENT_TYPE'
S_CONTENT_LENGTH == <<67, 79, 78, 84, 69, 78, 84, 95, 76, 69, 78, 71, 84, 72>>    \* 'CONTENT_LENGTH'
S_HTTP_ == <<72, 84, 84, 80, 95>>    \* 'HTTP_'
S_text_plain == <<116, 101, 120, 116, 47, 112, 108, 97, 105, 110, 59, 32, 99, 104, 97, 114, 115, 101, 116, 61, 117, 116, 102, 45, 56>>    \* 'text/plain; charset=utf-8'
S_InitError == <<68, 106, 97, 110, 103, 111, 32, 105, 110, 105, 116, 105, 97, 108, 105, 122, 97, 116, 105, 111, 110, 32, 101, 114, 114, 111, 114, 58, 32>>    \* 'Django initialization error: '
S_InitFailed == <<68, 106, 97, 110, 103, 111, 32, 105, 110, 105, 116, 105, 97, 108, 105, 122, 97, 116, 105, 111, 110, 32, 102, 97, 105, 108, 101, 100, 58, 32>>    \* 'Django initialization failed: '
S_nn == <<10, 10>>    \* '\n\n'
S_RequestObjectError == <<82, 101, 113, 117, 101, 115, 116, 32, 111, 98, 106, 101, 99, 116, 32, 101, 114, 114, 111, 114, 58, 32>>    \* 'Request object error: '
S_RequestType == <<10, 82, 101, 113, 117, 101, 115, 116, 32, 116, 121, 112, 101, 58, 32>>    \* '\nRequest type: '
S_RequestDir == <<10, 82, 101, 113, 117, 101, 115, 116, 32, 100, 105, 114, 58, 32>>    \* '\nRequest dir: '
S_RequestHandlingError == <<82, 101, 113, 117, 101, 115, 116, 32, 104, 97, 110, 100, 108, 105, 110, 103, 32, 101, 114, 114, 111, 114, 58, 32>>    \* 'Request handling error: '
S_HandlerError == <<72, 97, 110, 100, 108, 101, 114, 32, 101, 114, 114, 111, 114, 58, 32>>    \* 'Handler error: '
S_InternalServerError == <<73, 110, 116, 101, 114, 110, 97, 108, 32, 83, 101, 114, 118, 101, 114, 32, 69, 114, 114, 111, 114, 58, 32>>    \* 'Internal Server Error: '
S_Traceback == <<84, 114, 97, 99, 101, 98, 97, 99, 107, 32, 40, 109, 111, 115, 116, 32, 114, 101, 99, 101, 110, 116, 32, 99, 97, 108, 108, 32, 108, 97, 115, 116, 41, 58, 10>>    \* 'Traceback (most recent call last):\n'
S_colon_space == <<58, 32>>    \* ': '
S_colon == <<58>>    \* ':'

\* None, where a text may stand
NoneValue == <<-1>>

\* needle in haystack
Contains(hay, needle) ==
  \E i \in 0..(Len(hay) - Len(needle)) :
    \A j \in 1..Len(needle) : hay[i + j] = needle[j]

StartsWith(text, prefix) ==
  Len(text) >= Len(prefix) /\ \A j \in 1..Len(prefix) : text[j] = prefix[j]

\* first position of code point c in text, 0 when there is none
RECURSIVE FindFrom(_, _, _)
FindFrom(text, c, i) ==
  IF i > Len(text) THEN 0 ELSE IF text[i] = c THEN i ELSE FindFrom(text, c, i + 1)
Find(text, c) == FindFrom(text, c, 1)

Slice(text, from, to) == SubSeq(text, from, to)

\* str.split(c)
RECURSIVE Split(_, _)
Split(text, c) ==
  IF Find(text, c) = 0 THEN <<text>>
  ELSE <<Slice(text, 1, Find(text, c) - 1)>>
         \o Split(Slice(text, Find(text, c) + 1, Len(text)), c)

\* str.lstrip(c)
RECURSIVE LStrip(_, _)
LStrip(text, c) ==
  IF text # <<>> /\ Head(text) = c THEN LStrip(Tail(text), c) ELSE text

\* str.upper / str.lower / str.replace(a, b) on single code points
UpperChar(c) == IF c >= 97 /\ c <= 122 THEN c - 32 ELSE c
LowerChar(c) == IF c >= 65 /\ c <= 90 THEN c + 32 ELSE c
Upper(text) == [i \in 1..Len(text) |-> UpperChar(text[i])]
Lower(text) == [i \in 1..Len(text) |-> LowerChar(text[i])]
Replace(text, a, b) == [i \in 1..Len(text) |-> IF text[i] = a THEN b ELSE text[i]]

\* str(n) for n >= 0
RECURSIVE IntToText(_)
IntToText(n) == IF n < 10 THEN <<48 + n>> ELSE IntToText(n \div 10) \o <<48 + (n % 10)>>

IsDigits(text) == text # <<>> /\ \A i \in 1..Len(text) : text[i] >= 48 /\ text[i] <= 57
RECURSIVE TextToInt(_)
TextToInt(text) ==
  IF text = <<>> THEN 0 ELSE 10 * TextToInt(Slice(text, 1, Len(text) - 1)) + (text[Len(text)] - 48)

\* ---------------------------------------------------------------- UTF-8
ReplacementChar == 65533
IsCont(b) == b >= 128 /\ b <= 191

\* str.encode('utf-8') of one code point (below U+10000, no surrogate)
EncodeChar(c) ==
  IF c < 128 THEN <<c>>
  ELSE IF c < 2048 THEN <<192 + (c \div 64), 128 + (c % 64)>>
  ELSE <<224 + (c \div 4096), 128 + ((c \div 64) % 64), 128 + (c % 64)>>
RECURSIVE Encode(_)
Encode(text) == IF text = <<>> THEN <<>> ELSE EncodeChar(Head(text)) \o Encode(Tail(text))

\* the second byte a three-byte lead admits
SecondOk(lead, b) ==
  IF lead = 224 THEN b >= 160 /\ b <= 191
  ELSE IF lead = 237 THEN b >= 128 /\ b <= 159
  ELSE IsCont(b)

\* One step of the decoder at the head of bytes: <<code point, bytes used>>,
\* the code point -1 where the bytes are no UTF-8 (leads up to 0xEF).
DecodeStep(bytes) ==
  LET b1 == bytes[1]
      n == Len(bytes)
  IN IF b1 < 128 THEN <<b1, 1>>
     ELSE IF b1 >= 194 /\ b1 <= 223
       THEN IF n >= 2 /\ IsCont(bytes[2])
            THEN <<(b1 - 192) * 64 + (bytes[2] - 128), 2>>
            ELSE <<-1, 1>>
     ELSE IF b1 >= 224 /\ b1 <= 239
       THEN IF ~(n >= 2 /\ SecondOk(b1, bytes[2])) THEN <<-1, 1>>
            ELSE IF ~(n >= 3 /\ IsCont(bytes[3])) THEN <<-1, 2>>
            ELSE <<(b1 - 224) * 4096 + (bytes[2] - 128) * 64 + (bytes[3] - 128), 3>>
     ELSE <<-1, 1>>

RECURSIVE DecodeRaw(_)
DecodeRaw(bytes) ==
  IF bytes = <<>> THEN <<>>
  ELSE LET step == DecodeStep(bytes)
       IN <<step[1]>> \o DecodeRaw(Slice(bytes, step[2] + 1, Len(bytes)))

\* bytes.decode('utf-8', errors='replace')
DecodeReplace(bytes) ==
  LET raw == DecodeRaw(bytes)
  IN [i \in 1..Len(raw) |-> IF raw[i] = -1 THEN ReplacementChar ELSE raw[i]]

\* bytes.decode('utf-8') raises UnicodeDecodeError on these
DecodeFails(bytes) == \E i \in 1..Len(DecodeRaw(bytes)) : DecodeRaw(bytes)[i] = -1

\* the messages of the exceptions Python raises in handler
S_NoLstrip == <<39, 78, 111, 110, 101, 84, 121, 112, 101, 39, 32, 111, 98, 106, 101, 99, 116, 32, 104, 97, 115, 32, 110, 111, 32, 97, 116, 116, 114, 105, 98, 117, 116, 101, 32, 39, 108, 115, 116, 114, 105, 112, 39>>    \* "'NoneType' object has no attribute 'lstrip'"
S_NoDecode == <<39, 78, 111, 110, 101, 84, 121, 112, 101, 39, 32, 111, 98, 106, 101, 99, 116, 32, 104, 97, 115, 32, 110, 111, 32, 97, 116, 116, 114, 105, 98, 117, 116, 101, 32, 39, 100, 101, 99, 111, 100, 101, 39>>    \* "'NoneType' object has no attribute 'decode'"
S_NoGet == <<39, 78, 111, 110, 101, 84, 121, 112, 101, 39, 32, 111, 98, 106, 101, 99, 116, 32, 104, 97, 115, 32, 110, 111, 32, 97, 116, 116, 114, 105, 98, 117, 116, 101, 32, 39, 103, 101, 116, 39>>    \* "'NoneType' object has no attribute 'get'"
S_NoLower == <<39, 105, 110, 116, 39, 32, 111, 98, 106, 101, 99, 116, 32, 104, 97, 115, 32, 110, 111, 32, 97, 116, 116, 114, 105, 98, 117, 116, 101, 32, 39, 108, 111, 119, 101, 114, 39>>    \* "'int' object has no attribute 'lower'"
S_InvalidLiteral == <<105, 110, 118, 97, 108, 105, 100, 32, 108, 105, 116, 101, 114, 97, 108, 32, 102, 111, 114, 32, 105, 110, 116, 40, 41, 32, 119, 105, 116, 104, 32, 98, 97, 115, 101, 32, 49, 48, 58, 32>>    \* 'invalid literal for int() with base 10: '
S_CantDecode == <<39, 117, 116, 102, 45, 56, 39, 32, 99, 111, 100, 101, 99, 32, 99, 97, 110, 39, 116, 32, 100, 101, 99, 111, 100, 101, 32, 98, 121, 116, 101>>    \* "'utf-8' codec can't decode byte"
S_scheme_sep == <<58, 47, 47>>    \* '://'

\* ============================================================ api/index.py
\* ------------------------------------------------------------ exceptions
Exc(type, msg) == [type |-> type, msg |-> msg]
NoExc == Exc("", <<>>)
\* the classes `except Exception` catches; SystemExit and its like are not
IsException(e) == e.type \in {"AttributeError", "ValueError", "UnicodeDecodeError",
                              "ImproperlyConfigured", "ModuleNotFoundError", "RuntimeError"}
\* str(e)
StrOfExc(e) == e.msg
\* traceback.format_exc(): the header, then "Class: message" as the last line
\* class names, as they end a traceback
ClassText(type) ==
  CASE type = "AttributeError" -> <<65, 116, 116, 114, 105, 98, 117, 116, 101, 69, 114, 114, 111, 114>>
    [] type = "ValueError" -> <<86, 97, 108, 117, 101, 69, 114, 114, 111, 114>>
    [] type = "UnicodeDecodeError" -> <<85, 110, 105, 99, 111, 100, 101, 68, 101, 99, 111, 100, 101, 69, 114, 114, 111, 114>>
    [] type = "ImproperlyConfigured" -> <<73, 109, 112, 114, 111, 112, 101, 114, 108, 121, 67, 111, 110, 102, 105, 103, 117, 114, 101, 100>>
    [] type = "ModuleNotFoundError" -> <<77, 111, 100, 117, 108, 101, 78, 111, 116, 70, 111, 117, 110, 100, 69, 114, 114, 111, 114>>
    [] type = "RuntimeError" -> <<82, 117, 110, 116, 105, 109, 101, 69, 114, 114, 111, 114>>
    [] type = "SystemExit" -> <<83, 121, 115, 116, 101, 109, 69, 120, 105, 116>>
    [] OTHER -> <<>>
FormatExc(e) == S_Traceback \o ClassText(e.type) \o S_colon_space \o e.msg \o <<10>>


\* ------------------------------------------------------ request values
\* An attribute or key of the request: absent, None, a str or bytes.
Absent == [kind |-> "absent", val |-> <<>>]
None == [kind |-> "none", val |-> <<>>]
Str(text) == [kind |-> "str", val |-> text]
Bytes(bytes) == [kind |-> "bytes", val |-> bytes]
\* headers: absent, None or a dict, kept as its (name, value) items in order
NoHeaders == [kind |-> "absent", items |-> <<>>]
NoneHeaders == [kind |-> "none", items |-> <<>>]
Dict(items) == [kind |-> "dict", items |-> items]

\* str(x)
StrOf(v) == IF v.kind = "none" THEN S_None ELSE v.val

\* dict.get(key, default)
RECURSIVE DictGet(_, _, _)
DictGet(items, key, default) ==
  IF items = <<>> THEN default
  ELSE IF Head(items)[1] = key THEN Head(items)[2]
  ELSE DictGet(Tail(items), key, default)

\* urlparse(url).path for scheme://netloc/path?query#fragment and /path?query
UrlPath(url) ==
  LET at == CHOOSE i \in 0..Len(url) :
              /\ i > 0 => StartsWith(Slice(url, i, Len(url)), S_scheme_sep)
              /\ \A j \in 1..Len(url) :
                   StartsWith(Slice(url, j, Len(url)), S_scheme_sep) => i > 0 /\ i <= j
      afterScheme == IF at = 0 THEN url ELSE Slice(url, at + 3, Len(url))
      slash == Find(afterScheme, 47)
      rest == IF at = 0 THEN url
              ELSE IF slash = 0 THEN <<>> ELSE Slice(afterScheme, slash, Len(afterScheme))
      stop == CHOOSE i \in 1..(Len(rest) + 1) :
                /\ i <= Len(rest) => rest[i] \in {63, 35}
                /\ \A j \in 1..(i - 1) : rest[j] \notin {63, 35}
  IN Slice(rest, 1, stop - 1)

\* Each step of the normalisation gives [exc, val]: the exception it raises,
\* or its value.
Ok(val) == [exc |-> NoExc, val |-> val]
Raises(type, msg) == [exc |-> Exc(type, msg), val |-> <<>>]

\* lines 63-68: the mapping's request.get('method', 'GET') returns the same
RequestMethod(request) ==
  IF request.method.kind = "absent" THEN Ok(S_GET) ELSE Ok(StrOf(request.method))

\* lines 70-82
RequestPath(request) ==
  LET path == IF request.path.kind # "absent" THEN request.path
              ELSE IF request.shape = "object" /\ request.url.kind # "absent"
                THEN Str(UrlPath(request.url.val))
              ELSE Str(S_slash)
  IN IF path.kind = "none" THEN Raises("AttributeError", S_NoLstrip)
     ELSE IF path.val = <<>> \/ ~StartsWith(path.val, S_slash)
       THEN Ok(S_slash \o LStrip(path.val, 47))
     ELSE Ok(path.val)

\* lines 84-91
RequestQueryString(request) ==
  IF request.shape = "object" /\ request.query_string.kind # "absent"
  THEN IF request.query_string.kind = "str" THEN Ok(request.query_string.val)
       ELSE IF request.query_string.kind = "none" THEN Raises("AttributeError", S_NoDecode)
       ELSE IF DecodeFails(request.query_string.val)
         THEN Raises("UnicodeDecodeError", S_CantDecode)
       ELSE Ok(DecodeReplace(request.query_string.val))
  ELSE IF request.shape = "object" /\ request.url.kind # "absent" /\ Find(request.url.val, 63) > 0
  THEN Ok(Slice(request.url.val, Find(request.url.val, 63) + 1, Len(request.url.val)))
  ELSE IF request.shape = "mapping" /\ request.query_string.kind # "absent"
  THEN Ok(StrOf(request.query_string))
  ELSE Ok(<<>>)

\* lines 93-104: an object's headers that are no dict and have neither items
\* nor get leave {}; a mapping's request.get('headers', {}) is taken as it is
RequestHeaders(request) ==
  IF request.headers.kind = "dict" THEN request.headers
  ELSE IF request.shape = "mapping" /\ request.headers.kind = "none" THEN NoneHeaders
  ELSE Dict(<<>>)

\* lines 106-118
RequestBody(request) ==
  IF request.body.kind = "bytes" THEN request.body.val
  ELSE IF request.body.kind = "str" THEN Encode(request.body.val)
  ELSE <<>>

\* type(request) and dir(request)[:20], as printed
S_ClassDict == <<60, 99, 108, 97, 115, 115, 32, 39, 100, 105, 99, 116, 39, 62>>    \* "<class 'dict'>"
S_ClassRequest == <<60, 99, 108, 97, 115, 115, 32, 39, 82, 101, 113, 117, 101, 115, 116, 39, 62>>    \* "<class 'Request'>"
S_DirDict == <<91, 39, 95, 95, 99, 108, 97, 115, 115, 95, 95, 39, 44, 32, 39, 95, 95, 99, 111, 110, 116, 97, 105, 110, 115, 95, 95, 39, 93>>    \* "['__class__', '__contains__']"
S_DirRequest == <<91, 39, 95, 95, 99, 108, 97, 115, 115, 95, 95, 39, 44, 32, 39, 95, 95, 100, 101, 108, 97, 116, 116, 114, 95, 95, 39, 93>>    \* "['__class__', '__delattr__']"
TypeText(request) == IF request.shape = "mapping" THEN S_ClassDict ELSE S_ClassRequest
DirText(request) == IF request.shape = "mapping" THEN S_DirDict ELSE S_DirRequest

\* -------------------------------------------------------------- environ
\* key.upper().replace('-', '_')
HeaderKey(name) == Replace(Upper(name), 45, 95)
\* lines 150-154: the HTTP_ entries; a later header with the same key wins
RECURSIVE LastValue(_, _, _)
LastValue(items, key, found) ==
  IF items = <<>> THEN found
  ELSE LastValue(Tail(items), key,
                 IF S_HTTP_ \o HeaderKey(Head(items)[1]) = key THEN Head(items)[2] ELSE found)
HttpEntries(items) ==
  LET keys == {S_HTTP_ \o HeaderKey(items[i][1]) : i \in
                 {j \in 1..Len(items) :
                    HeaderKey(items[j][1]) \notin {S_CONTENT_TYPE, S_CONTENT_LENGTH}}}
  IN [k \in keys |-> LastValue(items, k, <<>>)]

\* the scheme taken as http unless the header says otherwise
SchemeDefaultHttp(items) ==
  IF DictGet(items, S_x_forwarded_proto, <<>>) # <<>>
    THEN DictGet(items, S_x_forwarded_proto, <<>>)
  ELSE IF DictGet(items, S_X_Forwarded_Proto, <<>>) # <<>>
    THEN DictGet(items, S_X_Forwarded_Proto, <<>>)
  ELSE S_http

\* lines 124-129
Scheme(items) ==
  IF DictGet(items, S_x_forwarded_proto, <<>>) # <<>>
    THEN DictGet(items, S_x_forwarded_proto, <<>>)
  ELSE IF DictGet(items, S_X_Forwarded_Proto, <<>>) # <<>>
    THEN DictGet(items, S_X_Forwarded_Proto, <<>>)
  ELSE S_https

\* lines 120-148
Environ(method, path, query_string, items, body) ==
  LET host == DictGet(items, S_host, DictGet(items, S_Host, S_localhost))
      host_parts == Split(host, 58)
      scheme == Scheme(items)
  IN [REQUEST_METHOD |-> method,
      PATH_INFO |-> path,
      SCRIPT_NAME |-> <<>>,
      QUERY_STRING |-> query_string,
      CONTENT_TYPE |-> DictGet(items, S_content_type, DictGet(items, S_Content_Type, <<>>)),
      CONTENT_LENGTH |-> IntToText(Len(body)),
      SERVER_NAME |-> host_parts[1],
      SERVER_PORT |-> IF Len(host_parts) > 1 THEN host_parts[2]
                      ELSE IF scheme = S_https THEN S_443 ELSE S_80,
      url_scheme |-> scheme,
      input |-> body,
      http |-> HttpEntries(items)]
NoEnviron ==
  [REQUEST_METHOD |-> <<>>, PATH_INFO |-> <<>>, SCRIPT_NAME |-> <<>>, QUERY_STRING |-> <<>>,
   CONTENT_TYPE |-> <<>>, CONTENT_LENGTH |-> <<>>, SERVER_NAME |-> <<>>, SERVER_PORT |-> <<>>,
   url_scheme |-> <<>>, input |-> <<>>, http |-> [k \in {} |-> <<>>]]

\* ------------------------------------------------------------- response
\* start_response: int(status.split()[0])
StatusCode(status) ==
  LET token == Head(Split(status, 32))
  IN IF IsDigits(token) THEN Ok(TextToInt(token))
     ELSE [exc |-> Exc("ValueError", S_InvalidLiteral \o <<39>> \o token \o <<39>>), val |-> 0]

\* a chunk that is no bytes: str(chunk).encode('utf-8')
ChunkBytes(chunk) ==
  IF chunk.kind = "bytes" THEN chunk.val ELSE Encode(chunk.val)
RECURSIVE JoinChunks(_)
JoinChunks(chunks) ==
  IF chunks = <<>> THEN <<>> ELSE ChunkBytes(Head(chunks)) \o JoinChunks(Tail(chunks))

\* lines 167-174: a list is joined chunk by chunk; bytes are taken as they
\* are; of anything else, str(response_body) is encoded
ResponseContent(body) ==
  IF body.kind = "list" THEN JoinChunks(body.chunks)
  ELSE IF body.kind = "bytes" THEN body.chunks[1].val
  ELSE IF body.kind = "str" THEN Encode(body.chunks[1].val)
  ELSE Encode(body.repr)

\* lines 176-180: {header[0].lower(): str(header[1])}, tuples shorter than 2
\* skipped, the last of equal names kept
RECURSIVE LastHeader(_, _, _)
LastHeader(headers_list, name, found) ==
  IF headers_list = <<>> THEN found
  ELSE LastHeader(Tail(headers_list), name,
                  IF Head(headers_list).len >= 2 /\ Lower(Head(headers_list).name.val) = name
                  THEN Head(headers_list).value ELSE found)
HeadersDict(headers_list) ==
  LET kept == {i \in 1..Len(headers_list) : headers_list[i].len >= 2}
  IN IF \E i \in kept : headers_list[i].name.kind # "str"
     THEN [exc |-> Exc("AttributeError", S_NoLower), val |-> [k \in {} |-> <<>>]]
     ELSE Ok([k \in {Lower(headers_list[i].name.val) : i \in kept} |->
                LastHeader(headers_list, k, <<>>)])

Envelope(statusCode, headers, body) ==
  [statusCode |-> statusCode, headers |-> headers, body |-> body, escaped |-> NoExc]
NoEnvelope == Envelope(0, [k \in {} |-> <<>>], <<>>)
PlainText == [k \in {S_Content_Type} |-> S_text_plain]

\* print(text, file=sys.stderr)
Printed(text) == text \o <<10>>

\* a body that names no error
InitErrorBodyGeneric(error, tb) == S_InitError
HandlerErrorBodyGeneric(e) == S_InternalServerError

\* line 45: f"Django initialization error: {django_error}\n\n{django_traceback}"
InitErrorBody(error, tb) == S_InitError \o error \o S_nn \o tb
\* line 196
RequestErrorBody(e) == S_RequestHandlingError \o StrOfExc(e)
\* line 207
HandlerErrorBody(e) == S_InternalServerError \o StrOfExc(e)
\* line 191
RequestErrorLog(e, request) ==
  S_RequestObjectError \o StrOfExc(e) \o S_RequestType \o TypeText(request)
    \o S_RequestDir \o DirText(request) \o S_nn \o FormatExc(e)
\* line 202
HandlerErrorLog(e) == S_HandlerError \o StrOfExc(e) \o S_nn \o FormatExc(e)

\* ------------------------------------------------------------- inputs
\* the texts of the requests and responses the runs use
S_POST == <<80, 79, 83, 84>>    \* 'POST'
S_add == <<47, 97, 100, 100, 47>>    \* '/add/'
S_add_rel == <<97, 100, 100, 47>>    \* 'add/'
S_example == <<101, 120, 97, 109, 112, 108, 101, 46, 99, 111, 109>>    \* 'example.com'
S_h8443 == <<104, 58, 56, 52, 52, 51>>    \* 'h:8443'
S_form == <<97, 112, 112, 108, 105, 99, 97, 116, 105, 111, 110, 47, 120, 45, 119, 119, 119, 45, 102, 111, 114, 109, 45, 117, 114, 108, 101, 110, 99, 111, 100, 101, 100>>    \* 'application/x-www-form-urlencoded'
S_title == <<116, 105, 116, 108, 101, 61, 66, 117, 121, 43, 109, 105, 108, 107>>    \* 'title=Buy+milk'
S_url == <<104, 116, 116, 112, 115, 58, 47, 47, 104, 47, 116, 111, 103, 103, 108, 101, 47, 49, 47, 63, 112, 97, 103, 101, 61, 50>>    \* 'https://h/toggle/1/?page=2'
S_page == <<112, 97, 103, 101, 61, 50>>    \* 'page=2'
S_HOST == <<72, 79, 83, 84>>    \* 'HOST'
S_X_Custom_Id == <<88, 45, 67, 117, 115, 116, 111, 109, 45, 73, 100>>    \* 'X-Custom-Id'
S_7 == <<55>>    \* '7'
S_200 == <<50, 48, 48, 32, 79, 75>>    \* '200 OK'
S_302 == <<51, 48, 50, 32, 70, 111, 117, 110, 100>>    \* '302 Found'
S_404 == <<52, 48, 52, 32, 78, 111, 116, 32, 70, 111, 117, 110, 100>>    \* '404 Not Found'
S_OK == <<79, 75>>    \* 'OK'
S_text_html == <<116, 101, 120, 116, 47, 104, 116, 109, 108, 59, 32, 99, 104, 97, 114, 115, 101, 116, 61, 117, 116, 102, 45, 56>>    \* 'text/html; charset=utf-8'
S_Location == <<76, 111, 99, 97, 116, 105, 111, 110>>    \* 'Location'
S_Set_Cookie == <<83, 101, 116, 45, 67, 111, 111, 107, 105, 101>>    \* 'Set-Cookie'
S_set_cookie == <<115, 101, 116, 45, 99, 111, 111, 107, 105, 101>>    \* 'set-cookie'
S_a1 == <<97, 61, 49>>    \* 'a=1'
S_b2 == <<98, 61, 50>>    \* 'b=2'
S_X_Short == <<88, 45, 83, 104, 111, 114, 116>>    \* 'X-Short'
S_HttpResponse == <<60, 72, 116, 116, 112, 82, 101, 115, 112, 111, 110, 115, 101, 32, 115, 116, 97, 116, 117, 115, 95, 99, 111, 100, 101, 61, 50, 48, 48, 44, 32, 34, 116, 101, 120, 116, 47, 104, 116, 109, 108, 59, 32, 99, 104, 97, 114, 115, 101, 116, 61, 117, 116, 102, 45, 56, 34, 62>>    \* '<HttpResponse status_code=200, "text/html; charset=utf-8">'
S_boom == <<98, 111, 111, 109>>    \* 'boom'
S_no_attr == <<39, 84, 97, 115, 107, 39, 32, 111, 98, 106, 101, 99, 116, 32, 104, 97, 115, 32, 110, 111, 32, 97, 116, 116, 114, 105, 98, 117, 116, 101, 32, 39, 100, 111, 110, 101, 39>>    \* "'Task' object has no attribute 'done'"
S_1 == <<49>>    \* '1'
S_SECRET_KEY == <<84, 104, 101, 32, 83, 69, 67, 82, 69, 84, 95, 75, 69, 89, 32, 115, 101, 116, 116, 105, 110, 103, 32, 109, 117, 115, 116, 32, 110, 111, 116, 32, 98, 101, 32, 101, 109, 112, 116, 121, 46>>    \* 'The SECRET_KEY setting must not be empty.'
S_NoDjango == <<78, 111, 32, 109, 111, 100, 117, 108, 101, 32, 110, 97, 109, 101, 100, 32, 39, 100, 106, 97, 110, 103, 111, 39>>    \* "No module named 'django'"

Request(shape, method, path, url, query_string, headers, body) ==
  [shape |-> shape, method |-> method, path |-> path, url |-> url,
   query_string |-> query_string, headers |-> headers, body |-> body]

\* POST /add/ with a form body
PlainRequest ==
  Request("object", Str(S_POST), Str(S_add), Absent, Absent,
          Dict(<< <<S_Host, S_example>>, <<S_Content_Type, S_form>> >>), Bytes(Encode(S_title)))

Requests ==
  { PlainRequest,
    \* an object with a url only, lower-case headers, a port in host
    Request("object", Absent, Absent, Str(S_url), Absent,
            Dict(<< <<S_host, S_h8443>>, <<S_x_forwarded_proto, S_http>> >>), Absent),
    \* a mapping, its path without the leading slash, a str body
    Request("mapping", Str(S_GET), Str(S_add_rel), Str(S_url), Str(S_page),
            Dict(<< <<S_X_Forwarded_Proto, S_https>> >>), Str(<<233>>)),
    \* nothing at all
    Request("object", Absent, Absent, Absent, Absent, NoHeaders, Absent),
    Request("mapping", Absent, Absent, Absent, Absent, NoHeaders, Absent),
    \* method None, headers None on an object, body None
    Request("object", None, Str(<<>>), Absent, Str(S_page), NoneHeaders, None),
    \* query_string as bytes: UTF-8, and not
    Request("object", Str(S_GET), Str(S_slash), Absent, Bytes(Encode(<<113, 61, 233>>)),
            Dict(<<>>), Absent),
    Request("object", Str(S_GET), Str(S_slash), Absent, Bytes(<<113, 61, 195>>),
            Dict(<<>>), Absent),
    \* path None, query_string None, a mapping's headers None
    Request("object", Str(S_GET), None, Absent, Absent, Dict(<<>>), Absent),
    Request("object", Str(S_GET), Str(S_slash), Absent, None, Dict(<<>>), Absent),
    Request("mapping", Str(S_GET), Str(S_slash), Absent, Absent, NoneHeaders, Absent),
    \* header names in other casings, and two names with one HTTP_ key
    Request("object", Str(S_GET), Str(S_slash), Absent, Absent,
            Dict(<< <<S_HOST, S_example>>, <<S_X_Custom_Id, S_7>>,
                    <<Lower(S_X_Custom_Id), S_1>>, <<S_CONTENT_TYPE, S_form>> >>), Absent) }

S_X_FORWARDED_PROTO == <<88, 45, 70, 79, 82, 87, 65, 82, 68, 69, 68, 45, 80, 82, 79, 84, 79>>    \* 'X-FORWARDED-PROTO'
S_CONTENT_TYPE_header == <<67, 79, 78, 84, 69, 78, 84, 45, 84, 89, 80, 69>>    \* 'CONTENT-TYPE'
S_HTTPS == <<72, 84, 84, 80, 83>>    \* 'HTTPS'
S_other == <<111, 116, 104, 101, 114, 46, 101, 120, 97, 109, 112, 108, 101>>    \* 'other.example'

\* requests that differ in their Host, X-Forwarded-Proto and Content-Type
\* headers only: each header absent, or sent under one of three spellings
HostNames == {S_host, S_Host, S_HOST}
ProtoNames == {S_x_forwarded_proto, S_X_Forwarded_Proto, S_X_FORWARDED_PROTO}
ContentTypeNames == {S_content_type, S_Content_Type, S_CONTENT_TYPE_header}
HostHeaders == {<<>>} \cup {<< <<n, v>> >> : n \in HostNames, v \in {S_example, S_h8443}}
ProtoHeaders == {<<>>} \cup {<< <<n, v>> >> : n \in ProtoNames, v \in {S_https, S_http, <<>>}}
HeaderRequest(items) ==
  Request("object", Str(S_GET), Str(S_slash), Absent, Absent, Dict(items), Absent)
HeaderRequests ==
  {HeaderRequest(h \o x) : h \in HostHeaders, x \in ProtoHeaders}
    \cup {HeaderRequest(<< <<n, S_form>> >>) : n \in ContentTypeNames}
    \cup { \* the scheme in capitals; a header sent under two spellings
           HeaderRequest(<< <<S_x_forwarded_proto, S_HTTPS>> >>),
           HeaderRequest(<< <<S_Host, S_other>>, <<S_host, S_example>> >>),
           HeaderRequest(<< <<S_X_Forwarded_Proto, S_http>>, <<S_x_forwarded_proto, <<>> >> >>) }

Chunk(kind, val) == [kind |-> kind, val |-> val]
ChunkValues ==
  {Chunk("bytes", <<65>>), Chunk("bytes", <<195>>), Chunk("bytes", <<169>>),
   Chunk("str", <<233>>)}
ChunkLists == UNION {[1..n -> ChunkValues] : n \in 0..MaxChunks}

\* what the application returns: a list of chunks, bytes, a str, or another
\* iterable of chunks (Django's HttpResponse), whose str() is repr
Body(kind, chunks, repr) == [kind |-> kind, chunks |-> chunks, repr |-> repr]
Bodies ==
  {Body("list", cs, <<>>) : cs \in ChunkLists}
    \cup {Body("iter", cs, S_HttpResponse) : cs \in ChunkLists}
    \cup {Body("bytes", <<c>>, <<>>) : c \in {x \in ChunkValues : x.kind = "bytes"}}
    \cup {Body("str", <<c>>, <<>>) : c \in {x \in ChunkValues : x.kind = "str"}}

Header(len, name, value) == [len |-> len, name |-> name, value |-> value]
HeaderLists ==
  { <<>>,
    << Header(2, Str(S_Content_Type), S_text_html) >>,
    << Header(2, Str(S_Location), S_slash), Header(2, Str(S_Set_Cookie), S_a1),
       Header(2, Str(S_set_cookie), S_b2), Header(1, Str(S_X_Short), <<>>) >>,
    << Header(2, [kind |-> "int", val |-> <<7>>], S_7) >> }

\* The application: it raises, or calls start_response(status, headers_list)
\* (or does not) and returns body.
Outcome(raises, called, status, headers_list, body) ==
  [raises |-> raises, called |-> called, status |-> status,
   headers_list |-> headers_list, body |-> body]
PlainOutcome ==
  Outcome(NoExc, TRUE, S_200, << Header(2, Str(S_Content_Type), S_text_html) >>,
          Body("list", <<Chunk("bytes", <<65>>)>>, <<>>))
Outcomes ==
  {[PlainOutcome EXCEPT !.body = b] : b \in Bodies}
    \cup {[PlainOutcome EXCEPT !.status = st] : st \in {S_200, S_302, S_404, S_OK}}
    \cup {[PlainOutcome EXCEPT !.headers_list = hl] : hl \in HeaderLists}
    \cup {[PlainOutcome EXCEPT !.raises = e] :
            e \in {Exc("RuntimeError", S_boom), Exc("AttributeError", S_no_attr),
                   Exc("SystemExit", S_1)}}
    \cup {[PlainOutcome EXCEPT !.called = FALSE]}

Call(request, outcome) == [request |-> request, outcome |-> outcome]
NoCall == Call(Request("", Absent, Absent, Absent, Absent, NoHeaders, Absent),
               Outcome(NoExc, FALSE, <<>>, <<>>, Body("", <<>>, <<>>)))
Calls ==
  {Call(r, PlainOutcome) : r \in Requests \cup HeaderRequests}
    \cup {Call(PlainRequest, o) : o \in Outcomes}

\* -------------------------------------------------------------- handler
Result(envelope, printed, env, exc) ==
  [hresp |-> envelope, stderr |-> printed, environ |-> env, raised |-> exc]

\* lines 62-129: the first exception the normalisation raises
NormaliseExc(path, query_string, headers) ==
  IF path.exc # NoExc THEN path.exc
  ELSE IF query_string.exc # NoExc THEN query_string.exc
  ELSE IF headers.kind = "none" THEN Exc("AttributeError", S_NoGet)
  ELSE NoExc

\* lines 131-154, reached when the normalisation raised nothing
BuildEnviron(request, exc) ==
  IF exc # NoExc THEN NoEnviron
  ELSE Environ(RequestMethod(request).val, RequestPath(request).val,
               RequestQueryString(request).val, RequestHeaders(request).items,
               RequestBody(request))

\* lines 156-180: the first exception of the application, of start_response
\* or of the conversion of the headers
ApplicationExc(outcome, status, headers_dict) ==
  IF outcome.raises # NoExc THEN outcome.raises
  ELSE IF status.exc # NoExc THEN status.exc
  ELSE headers_dict.exc

\* lines 182-208: the envelope of a call in which exc was raised (or nothing)
Respond(request, outcome, env, status, headers_dict, exc) ==
  IF exc = NoExc
  THEN Result(Envelope(status.val, headers_dict.val,
                       DecodeReplace(ResponseContent(outcome.body))),
              <<>>, env, NoExc)
  ELSE IF exc.type = "AttributeError"
  THEN Result(Envelope(500, PlainText, RequestErrorBody(exc)),
              Printed(RequestErrorLog(exc, request)), env, exc)
  ELSE IF IsException(exc)
  THEN Result(Envelope(500, PlainText, HandlerErrorBody(exc)),
              Printed(HandlerErrorLog(exc)), env, exc)
  ELSE Result([NoEnvelope EXCEPT !.escaped = exc], <<>>, env, exc)

\* lines 156-187, after a normalisation that raised normExc (or nothing)
Invoke(request, outcome, normExc, status, headers_dict) ==
  Respond(request, outcome, BuildEnviron(request, normExc), status, headers_dict,
          IF normExc # NoExc THEN normExc
          ELSE ApplicationExc(outcome, status, headers_dict))

\* lines 37-208
HandlerResult(request, outcome) ==
  IF ~django_loaded
  THEN Result(Envelope(500, PlainText, InitErrorBody(django_error, django_traceback)),
              Printed(InitErrorBody(django_error, django_traceback)), NoEnviron, NoExc)
  ELSE Invoke(request, outcome,
              NormaliseExc(RequestPath(request), RequestQueryString(request),
                           RequestHeaders(request)),
              IF outcome.called THEN StatusCode(outcome.status) ELSE Ok(200),
              HeadersDict(IF outcome.called THEN outcome.headers_list ELSE <<>>))

Returns(request, outcome, result) ==
  /\ hcall' = Call(request, outcome)
  /\ hresp' = result.hresp
  /\ stderr' = result.stderr
  /\ environ' = result.environ
  /\ raised' = result.raised
  /\ UNCHANGED <<django_loaded, django_error, django_traceback, application>>

handler(request, outcome) == Returns(request, outcome, HandlerResult(request, outcome))

Handler == /\ \E c \in Calls : handler(c.request, c.outcome)
           /\ UNCHANGED storeVars

\* lines 19-35: the module is loaded once; get_wsgi_application() returns,
\* or raises and the error and its traceback are kept
InitFailures == {Exc("ImproperlyConfigured", S_SECRET_KEY), Exc("ModuleNotFoundError", S_NoDjango)}
InitModule ==
  /\ \/ /\ django_loaded = TRUE
        /\ django_error = NoneValue
        /\ django_traceback = NoneValue
        /\ application = "WSGIHandler"
        /\ stderr = <<>>
     \/ \E e \in InitFailures :
          /\ django_loaded = FALSE
          /\ django_error = StrOfExc(e)
          /\ django_traceback = FormatExc(e)
          /\ application = "None"
          /\ stderr = Printed(S_InitFailed \o StrOfExc(e)) \o Printed(FormatExc(e))
  /\ hcall = NoCall
  /\ environ = NoEnviron
  /\ raised = NoExc
  /\ hresp = NoEnvelope

\* ------------------------------------------------------- specifications
\* api/index.py loaded, get_wsgi_application() having returned
InitAdapterIdle ==
  /\ django_loaded = TRUE
  /\ django_error = NoneValue
  /\ django_traceback = NoneValue
  /\ application = "WSGIHandler"
  /\ hcall = NoCall
  /\ environ = NoEnviron
  /\ raised = NoExc
  /\ stderr = <<>>
  /\ hresp = NoEnvelope

Init ==
  /\ tasks = {}
  /\ nextId = 1
  /\ now = 0
  /\ resp = NoResponse
  /\ log = [i \in ReqIds |-> <<>>]
  /\ InitAdapterIdle

Next == TaskList \/ AddTask \/ EditTask \/ DeleteTask \/ ToggleTask

Spec == Init /\ [][Next]_vars

\* the adapter alone, from either outcome of the module's load
InitHandler ==
  /\ tasks = {}
  /\ nextId = 1
  /\ now = 0
  /\ resp = NoResponse
  /\ log = [i \in ReqIds |-> <<>>]
  /\ InitModule

NextHandler == Handler

SpecHandler == InitHandler /\ [][NextHandler]_vars


\* ------------------------------------------------- pagination runs
\* A store after n valid add_task calls (and some toggles), one per instant.
ListedRow(i) ==
  Task(i, [present |-> TRUE, lead |-> 0, core |-> IF i % 3 = 0 THEN MaxTitleLength ELSE 1],
       IF i % 3 = 0 THEN "milk" ELSE NoDescription, i % 2 = 0, i, i)
ListedStore(n) == {ListedRow(i) : i \in 1..n}

InitListed ==
  /\ \E n \in 0..MaxListed :
       /\ tasks = ListedStore(n)
       /\ nextId = n + 1
       /\ now = n
       /\ log = [i \in ReqIds |->
                  IF i <= n THEN <<Write("add", NoRow, ListedRow(i))>> ELSE <<>>]
  /\ resp = NoResponse
  /\ InitAdapterIdle

NextListed == TaskList

SpecListed == InitListed /\ [][NextListed]_vars

\* ------------------------------------------------------------ history
LastWrite(id) == log[id][Len(log[id])]
\* the log ends with the row as it is stored now
LogMatchesStore ==
  \A id \in ReqIds :
    Len(log[id]) > 0 =>
      IF LastWrite(id).op = "delete" THEN RowsOf(tasks, id) = {}
      ELSE RowsOf(tasks, id) = {LastWrite(id).after}

\* C3: every toggle_task on an existing task flips completed and leaves
\* updated_at strictly greater than before; two toggles of one task with no
\* other write to it in between bring completed back to its first value.
C3_ToggleTwice ==
  /\ LogMatchesStore
  /\ \A id \in ReqIds : \A k \in 1..Len(log[id]) :
       log[id][k].op = "toggle" =>
         /\ log[id][k].after.completed = ~log[id][k].before.completed
         /\ log[id][k].after.updated_at > log[id][k].before.updated_at
  /\ \A id \in ReqIds :
       (Len(log[id]) = 2 /\ log[id][1].op = "toggle" /\ log[id][2].op = "toggle") =>
         /\ log[id][2].before = log[id][1].after
         /\ log[id][2].after.completed = log[id][1].before.completed
         /\ log[id][2].after.updated_at > log[id][1].after.updated_at

C3_Witness ==
  \E id \in ReqIds :
    /\ Len(log[id]) = 2 /\ log[id][1].op = "toggle" /\ log[id][2].op = "toggle"
    /\ resp.view = "toggle_task" /\ resp.id = id /\ resp.status = 302
    /\ RowsOf(tasks, id) # {}

Lookups == {"edit_task", "delete_task", "toggle_task"}
Deleted(id) == Len(log[id]) > 0 /\ LastWrite(id).op = "delete"
\* the step is answered by view, for id (every view names both in its answer)
Answers(view, id) == resp'.view = view /\ resp'.id = id
\* a lookup of id by edit_task, delete_task or toggle_task
LooksUp(id) ==
  \/ Answers("edit_task", id) /\ \E m \in Methods : \E post \in Posts(m) : edit_task(m, id, post)
  \/ Answers("delete_task", id) /\ \E m \in Methods : delete_task(m, id)
  \/ Answers("toggle_task", id) /\ \E m \in Methods : toggle_task(m, id)

\* C4: a POST to delete_task for an existing id removes exactly that row and
\* leaves every other row as it was; from then on the id is not in the store,
\* every lookup of it is answered 404, and it never comes back.
C4_DeleteIsFinal ==
  /\ [](\A id \in ReqIds : Deleted(id) => RowsOf(tasks, id) = {})
  /\ [][\A id \in ReqIds :
          /\ (RowsOf(tasks, id) # {} /\ Answers("delete_task", id) /\ delete_task("POST", id)) =>
               /\ tasks' = {r \in tasks : r.id # id}
               /\ resp'.status = 302
               /\ Deleted(id)'
          /\ Deleted(id) => (Deleted(id)' /\ RowsOf(tasks', id) = {})
          /\ (Deleted(id) /\ LooksUp(id)) => resp'.status = 404]_vars

C4_Witness ==
  \E id \in ReqIds :
    /\ Deleted(id)
    /\ resp.view \in Lookups /\ resp.id = id /\ resp.status = 404
    /\ tasks # {}

\* C5: edit_task, delete_task and toggle_task on an id that is not in the
\* store answer 404 whatever the method, and leave the store as it was.
C5_UnknownIdIs404 ==
  [][\A id \in ReqIds :
       (RowsOf(tasks, id) = {} /\ LooksUp(id)) =>
         /\ resp'.status = 404
         /\ resp'.id = id
         /\ tasks' = tasks /\ nextId' = nextId /\ log' = log]_vars

C5_Witness ==
  /\ resp.view = "toggle_task" /\ resp.status = 404
  /\ RowsOf(tasks, resp.id) = {}
  /\ tasks # {}

\* C6: an unfiltered task_list lists the tasks by created_at, newest first;
\* asked right after a successful add_task, page 1 starts with the new task.
C6_NewestFirst ==
  [][(resp'.view = "task_list" /\ resp'.search_query = "" /\ resp'.filter_status = "") =>
     \A tie \in Ties(tasks) : \A p \in PageParams(Cardinality(tasks)) :
       task_list("", "", p, tie) =>
         /\ \A i, j \in 1..Len(resp'.items) :
              i < j => Row(tasks, resp'.items[i]).created_at
                         >= Row(tasks, resp'.items[j]).created_at
         /\ (resp.view = "add_task" /\ resp.status = 302 /\ resp'.number = 1) =>
              (Len(resp'.items) >= 1 /\ resp'.items[1] = resp.id)]_vars

C6_Witness ==
  /\ resp.view = "task_list" /\ resp.search_query = "" /\ resp.filter_status = ""
  /\ resp.number = 1 /\ Len(resp.items) >= 2
  /\ resp.items[1] = nextId - 1
  /\ \A r \in tasks : r.created_at <= Row(tasks, nextId - 1).created_at

\* C7: every stored task has updated_at >= created_at and a key no other
\* stored task has; no operation changes the created_at or the key of a
\* stored task, and a new task gets the next key and a created_at read at
\* its creation.
C7_TaskInvariants ==
  /\ [](\A r \in tasks :
          /\ r.updated_at >= r.created_at
          /\ \A s \in tasks : s.id = r.id => s = r)
  /\ [][\A r2 \in tasks' :
          /\ \A r \in tasks :
               /\ r.id = r2.id => r2.created_at = r.created_at
               /\ r.created_at = r2.created_at => r2.id = r.id
          /\ r2.id \notin Ids(tasks) => (r2.id = nextId /\ r2.created_at > now)]_vars

C7_Witness ==
  \E r \in tasks :
    /\ r.updated_at > r.created_at
    /\ Len(log[r.id]) = 2 /\ log[r.id][1].op = "edit" /\ log[r.id][2].op = "toggle"

\* the titles C8 names, by their length as submitted
TitleRejectedAsSubmitted(post) ==
  \/ ~post.title.present
  \/ TitleLen(post.title) = 0
  \/ TitleLen(post.title) > MaxTitleLength
\* the same, by their length once surrounding blanks are stripped
TitleRejectedOnceStripped(post) ==
  \/ ~post.title.present
  \/ post.title.core = 0
  \/ post.title.core > MaxTitleLength

RedisplaysForm(r) ==
  r.status = 200 /\ r.template = "tasks/task_form.html" /\ r.message = "errors"

\* C8 as stated: a POST to add_task or edit_task whose title is missing, empty
\* or longer than 100 characters redisplays the form and changes nothing.
C8_AsStated ==
  [][resp'.view \in {"add_task", "edit_task"} =>
     \A post \in PostData :
       TitleRejectedAsSubmitted(post) =>
         /\ (resp'.view = "add_task" /\ add_task("POST", post)) =>
              (RedisplaysForm(resp') /\ tasks' = tasks)
         /\ \A id \in Ids(tasks) :
              (Answers("edit_task", id) /\ edit_task("POST", id, post)) =>
                (RedisplaysForm(resp') /\ tasks' = tasks)]_vars

\* C8 amended: a POST to add_task or edit_task whose title is missing, or is
\* empty or longer than 100 characters once surrounding blanks are stripped,
\* redisplays the form and changes nothing; every stored title is stripped,
\* non-empty and at most 100 characters long.
C8_InvalidTitleRedisplays ==
  /\ [](\A r \in tasks :
          r.title.lead = 0 /\ TitleLen(r.title) >= 1 /\ TitleLen(r.title) <= MaxTitleLength)
  /\ [][resp'.view \in {"add_task", "edit_task"} =>
        \A post \in PostData :
          TitleRejectedOnceStripped(post) =>
            /\ (resp'.view = "add_task" /\ add_task("POST", post)) =>
                 (RedisplaysForm(resp') /\ tasks' = tasks /\ nextId' = nextId)
            /\ \A id \in Ids(tasks) :
                 (Answers("edit_task", id) /\ edit_task("POST", id, post)) =>
                   (RedisplaysForm(resp') /\ tasks' = tasks /\ nextId' = nextId)]_vars

C8_Witness ==
  /\ resp.view = "edit_task" /\ RedisplaysForm(resp)
  /\ RowsOf(tasks, resp.id) # {}
  /\ Len(log[resp.id]) = 1

CeilDiv(n, d) == (n + d - 1) \div d
RECURSIVE ConcatPages(_, _)
ConcatPages(seq, upto) ==
  IF upto = 0 THEN <<>> ELSE ConcatPages(seq, upto - 1) \o PageSlice(seq, upto)

\* C9: task_list shows the n matching tasks in pages of 6: page k of
\* ceil(n/6) holds min(6, n - 6(k-1)) tasks, namely entries 6(k-1)+1.. of
\* the ordered list, and the pages in sequence make up that list exactly
\* (13 tasks: 6, 6 and 1).
C9_PagesOfSix ==
  resp.view = "task_list" =>
    LET matching == StatusFilter(SearchFilter(tasks, resp.search_query), resp.filter_status)
        n == Cardinality(matching)
        pages == CeilDiv(n, PageSize)
    IN \A tie \in Ties(tasks) :
         LET ordered == OrderBy(matching, tie)
         IN /\ n > 0 =>
                 /\ resp.num_pages = pages
                 /\ resp.number \in 1..pages
                 /\ Len(resp.items) = Min(PageSize, n - PageSize * (resp.number - 1))
                 /\ \A i \in 1..Len(resp.items) :
                      resp.items[i] = ordered[PageSize * (resp.number - 1) + i].id
            /\ \A k \in 1..pages :
                 Len(PageSlice(ordered, k)) = Min(PageSize, n - PageSize * (k - 1))
            /\ ConcatPages(ordered, pages) = ordered
            /\ n = 13 => /\ Len(PageSlice(ordered, 1)) = 6
                         /\ Len(PageSlice(ordered, 2)) = 6
                         /\ Len(PageSlice(ordered, 3)) = 1

C9_Witness ==
  /\ resp.view = "task_list" /\ resp.search_query = "" /\ resp.filter_status = ""
  /\ Cardinality(tasks) = 13
  /\ resp.number = 3 /\ resp.num_pages = 3
  /\ Len(resp.items) = 1
\* ------------------------------------------------------------ adapter
Called == hcall # NoCall

\* C1: when the module's initialization failed, every call of handler, for
\* any request and after any number of earlier calls, returns statusCode 500
\* with a body carrying the captured error message; and no call of handler
\* changes django_loaded, django_error, django_traceback or application.
C1_InitFailureIsSticky ==
  /\ [](~django_loaded =>
          /\ \E e \in InitFailures : django_error = StrOfExc(e)
          /\ Called => /\ hresp.statusCode = 500
                       /\ hresp.escaped = NoExc
                       /\ Contains(hresp.body, django_error))
  /\ [][/\ django_loaded' = django_loaded
        /\ django_error' = django_error
        /\ django_traceback' = django_traceback
        /\ application' = application]_vars

\* a failed load, then a call with a request other than the plain one
C1_Witness ==
  /\ ~django_loaded
  /\ Called
  /\ hcall.request # PlainRequest
  /\ hresp.statusCode = 500
  /\ Contains(hresp.body, django_error)
  /\ django_error # <<>>

C10_AsStated ==
  (django_loaded /\ Called /\ raised = NoExc) =>
    hresp.body = DecodeReplace(JoinChunks(hcall.outcome.body.chunks))

\* ------------------------------------------------- the canonical request
\* the last call built an environ
EnvironBuilt == django_loaded /\ Called /\ environ # NoEnviron
SentHeaders == hcall.request.headers.items
\* the values sent under name, whatever the casing of the header's name
Sent(name) ==
  {SentHeaders[i][2] : i \in {j \in 1..Len(SentHeaders) : Lower(SentHeaders[j][1]) = name}}
\* name is sent at most once, and then in one of the two spellings
SentAs(name, spellings) ==
  /\ Cardinality({j \in 1..Len(SentHeaders) : Lower(SentHeaders[j][1]) = name}) <= 1
  /\ \A j \in 1..Len(SentHeaders) :
       Lower(SentHeaders[j][1]) = name => SentHeaders[j][1] \in spellings
HasPort(host) == Find(host, 58) > 0
BeforeColon(host) == IF HasPort(host) THEN SubSeq(host, 1, Find(host, 58) - 1) ELSE host

\* C11 as stated: SERVER_NAME and SERVER_PORT come from splitting the Host
\* header on ':'; when the Host header carries no port, SERVER_PORT is '443'
\* only if X-Forwarded-Proto is present and says https, and '80' in every
\* other case, including when X-Forwarded-Proto is absent.
C11_AsStated ==
  (EnvironBuilt /\ SentAs(S_host, {S_host, S_Host})
                /\ SentAs(S_x_forwarded_proto, {S_x_forwarded_proto, S_X_Forwarded_Proto})) =>
    /\ \A host \in Sent(S_host) :
         /\ environ.SERVER_NAME = BeforeColon(host)
         /\ HasPort(host) => S_colon \o environ.SERVER_PORT = SubSeq(host, Find(host, 58), Len(host))
    /\ (\A host \in Sent(S_host) : ~HasPort(host)) =>
         environ.SERVER_PORT = IF S_https \in Sent(S_x_forwarded_proto) THEN S_443 ELSE S_80

\* C11 amended: when Host and X-Forwarded-Proto are sent at most once each,
\* under the names handler reads ('host' or 'Host', 'x-forwarded-proto' or
\* 'X-Forwarded-Proto'), SERVER_NAME and SERVER_PORT come from splitting the
\* Host header ('localhost' when there is none) on ':'; when the host
\* carries no port, SERVER_PORT is '80' only if X-Forwarded-Proto is present,
\* not empty and not exactly 'https', and '443' in every other case,
\* including when X-Forwarded-Proto is absent.
C11_PortFromHostOrScheme ==
  (EnvironBuilt /\ SentAs(S_host, {S_host, S_Host})
                /\ SentAs(S_x_forwarded_proto, {S_x_forwarded_proto, S_X_Forwarded_Proto})) =>
    /\ \A host \in Sent(S_host) :
         /\ environ.SERVER_NAME = BeforeColon(host)
         /\ HasPort(host) => S_colon \o environ.SERVER_PORT = SubSeq(host, Find(host, 58), Len(host))
    /\ Sent(S_host) = {} => environ.SERVER_NAME = S_localhost
    /\ (\A host \in Sent(S_host) : ~HasPort(host)) =>
         /\ environ.SERVER_PORT \in {S_80, S_443}
         /\ environ.SERVER_PORT = S_80 <=>
              \E proto \in Sent(S_x_forwarded_proto) : proto # <<>> /\ proto # S_https

\* a Host without a port and no X-Forwarded-Proto: the port is 443
C11_Witness ==
  /\ EnvironBuilt
  /\ SentAs(S_host, {S_host, S_Host})
  /\ Sent(S_host) = {S_example}
  /\ Sent(S_x_forwarded_proto) = {}
  /\ environ.SERVER_NAME = S_example
  /\ environ.SERVER_PORT = S_443

\* the header is the only one sent under its name, casing aside
SentOnce(i) ==
  \A j \in 1..Len(SentHeaders) :
    Lower(SentHeaders[j][1]) = Lower(SentHeaders[i][1]) => j = i

\* C12 as stated: header names are read whatever their casing: for any
\* casing of Content-Type, Host and X-Forwarded-Proto the environ carries the
\* content type in CONTENT_TYPE and takes the host and the scheme from those
\* headers, and every other header appears under HTTP_ and its name in
\* capitals with '-' replaced by '_'; no header value is lost because of the
\* casing of its name.
C12_AsStated ==
  (EnvironBuilt /\ hcall.request.headers.kind = "dict") =>
    \A i \in 1..Len(SentHeaders) :
      LET name == Lower(SentHeaders[i][1])
          value == SentHeaders[i][2]
      IN SentOnce(i) =>
           /\ name = S_content_type => environ.CONTENT_TYPE = value
           /\ name = S_host => environ.SERVER_NAME = BeforeColon(value)
           /\ (name = S_x_forwarded_proto /\ value # <<>>) => environ.url_scheme = value
           /\ name \notin {S_content_type, S_content_length} =>
                /\ S_HTTP_ \o HeaderKey(SentHeaders[i][1]) \in DOMAIN environ.http
                /\ environ.http[S_HTTP_ \o HeaderKey(SentHeaders[i][1])] = value

====
